---- MODULE Spec2Model ----
(***************************************************************************)
(* Model of the string and number helpers of modules-pkg/utils.            *)
(*                                                                         *)
(* Every helper is a pure function, so each becomes an operator computed   *)
(* the way the TypeScript computes it (String.prototype.slice, replace     *)
(* with a global regular expression, split, the truncating remainder %).  *)
(* A string is a sequence of one-character strings.  The state machine is  *)
(* a caller that, when idle, calls one helper on inputs drawn from bounded *)
(* sets, records the returned value, and goes back to idle.                *)
(***************************************************************************)
EXTENDS Integers, Sequences, FiniteSets

\* pc, fn, argv, ret: the caller's position, the helper it called, the
\* arguments and the returned value; heap: the arrays that exist during the
\* call, an array reference being an index into heap
VARIABLES pc, fn, argv, ret, heap

vars == <<pc, fn, argv, ret, heap>>

(***************************************************************************)
(* Bounds of the model.                                                    *)
(***************************************************************************)
\* longest string drawn as an input
MaxLen == 3
\* longest format template drawn as an input
MaxTemplate == 4
\* toOrdinal and mod are called on -MaxInt..MaxInt
MaxInt == 125
\* getPrimeFactors, getDivisors, isPerfect and isPrime are called on
\* -MaxNat..MaxNat
MaxNat == 60
\* largest modulus mod is called with
MaxModulus == 7
\* most arguments passed to max, min, sum, average and median
MaxArgs == 3
\* those arguments are drawn from -MaxElem..MaxElem
MaxElem == 2
\* factorial and fibonacci are called on -MaxRec..MaxRec
\* (12! is the largest factorial a 32-bit integer holds)
MaxRec == 10

\* all strings over alphabet of length at most n
Strs(alphabet, n) == UNION {[1..k -> alphabet] : k \in 0..n}

(***************************************************************************)
(* ECMAScript primitives the helpers are written with.                     *)
(***************************************************************************)
Min2(a, b) == IF a < b THEN a ELSE b
Max2(a, b) == IF a > b THEN a ELSE b

\* a relative index of slice: negative counts from the end, clamped to 0..len
RelIndex(k, len) == IF k < 0 THEN Max2(len + k, 0) ELSE Min2(k, len)

\* String.prototype.slice(start, end)
Slice(s, start, end) ==
  LET from == RelIndex(start, Len(s))
      to   == RelIndex(end, Len(s))
  IN  IF from < to THEN SubSeq(s, from + 1, to) ELSE <<>>

\* String.prototype.slice(start)
SliceFrom(s, start) == Slice(s, start, Len(s))

\* String.prototype.startsWith
StartsWith(s, p) == Len(p) <= Len(s) /\ SubSeq(s, 1, Len(p)) = p

\* String.prototype.endsWith
EndsWith(s, p) == Len(p) <= Len(s) /\ SubSeq(s, Len(s) - Len(p) + 1, Len(s)) = p

LowerLetters == <<"a","b","c","d","e","f","g","h","i","j","k","l","m",
                  "n","o","p","q","r","s","t","u","v","w","x","y","z">>
UpperLetters == <<"A","B","C","D","E","F","G","H","I","J","K","L","M",
                  "N","O","P","Q","R","S","T","U","V","W","X","Y","Z">>

\* the character classes [a-z], [A-Z] and \d of the regular expressions
IsLower(c) == \E i \in DOMAIN LowerLetters : LowerLetters[i] = c
IsUpper(c) == \E i \in DOMAIN UpperLetters : UpperLetters[i] = c
IsDigit(c) == c \in {"0","1","2","3","4","5","6","7","8","9"}

UpperChar(c) ==
  IF IsLower(c) THEN UpperLetters[CHOOSE i \in DOMAIN LowerLetters : LowerLetters[i] = c]
  ELSE c
LowerChar(c) ==
  IF IsUpper(c) THEN LowerLetters[CHOOSE i \in DOMAIN UpperLetters : UpperLetters[i] = c]
  ELSE c

\* String.prototype.toUpperCase / toLowerCase
toUpperCase(s) == [i \in 1..Len(s) |-> UpperChar(s[i])]
toLowerCase(s) == [i \in 1..Len(s) |-> LowerChar(s[i])]

\* str.replace(/c/g, rep) for a single literal character c
RECURSIVE ReplaceChar(_, _, _)
ReplaceChar(s, c, rep) ==
  IF s = <<>> THEN <<>>
  ELSE (IF Head(s) = c THEN rep ELSE <<Head(s)>>) \o ReplaceChar(Tail(s), c, rep)

\* String.prototype.split(sep) for a non-empty separator
RECURSIVE SplitAcc(_, _, _)
SplitAcc(s, sep, cur) ==
  IF s = <<>> THEN <<cur>>
  ELSE IF StartsWith(s, sep)
       THEN <<cur>> \o SplitAcc(SubSeq(s, Len(sep) + 1, Len(s)), sep, <<>>)
       ELSE SplitAcc(Tail(s), sep, Append(cur, Head(s)))

\* String.prototype.split(sep): the empty separator splits into code units,
\* and the empty string then gives the empty array
Split(s, sep) ==
  IF sep = <<>> THEN [i \in 1..Len(s) |-> <<s[i]>>]
  ELSE SplitAcc(s, sep, <<>>)

\* Array.prototype.join(sep)
RECURSIVE Join(_, _)
Join(parts, sep) ==
  IF parts = <<>> THEN <<>>
  ELSE IF Len(parts) = 1 THEN parts[1]
  ELSE parts[1] \o sep \o Join(Tail(parts), sep)

\* Array.prototype.reverse on the code units (str.split("").reverse().join(""))
reverse(s) == [i \in 1..Len(s) |-> s[Len(s) + 1 - i]]

(***************************************************************************)
(* String helpers                                                          *)
(***************************************************************************)
removePrefix(str, prefix) ==
  IF StartsWith(str, prefix) THEN SliceFrom(str, Len(prefix)) ELSE str

\* -suffix.length is -0 for the empty suffix, and slice(0, -0) is slice(0, 0)
removeSuffix(str, suffix) ==
  IF EndsWith(str, suffix) THEN Slice(str, 0, 0 - Len(suffix)) ELSE str

DefaultSuffix == <<".", ".", ".">>

truncate(str, maxLength, suffix) ==
  IF Len(str) > maxLength
  THEN Slice(str, 0, maxLength - Len(suffix)) \o suffix
  ELSE str

\* str.charAt(0).toUpperCase() + str.slice(1)
capitalize(str) == toUpperCase(Slice(str, 0, 1)) \o SliceFrom(str, 1)

\* str.replace(/-([a-z])/g, (g) => g[1].toUpperCase())
RECURSIVE camelCase_NoUpper(_)
camelCase_NoUpper(str) ==
  IF str = <<>> THEN <<>>
  ELSE IF Len(str) >= 2 /\ str[1] = "-" /\ IsLower(str[2])
       THEN <<str[2]>> \o camelCase_NoUpper(SubSeq(str, 3, Len(str)))
       ELSE <<Head(str)>> \o camelCase_NoUpper(Tail(str))

RECURSIVE camelCase(_)
camelCase(str) ==
  IF str = <<>> THEN <<>>
  ELSE IF Len(str) >= 2 /\ str[1] = "-" /\ IsLower(str[2])
       THEN <<UpperChar(str[2])>> \o camelCase(SubSeq(str, 3, Len(str)))
       ELSE <<Head(str)>> \o camelCase(Tail(str))

\* str.replace(/([a-z])([A-Z])/g, "$1-$2")
RECURSIVE HyphenateBoundaries(_)
HyphenateBoundaries(str) ==
  IF str = <<>> THEN <<>>
  ELSE IF Len(str) >= 2 /\ IsLower(str[1]) /\ IsUpper(str[2])
       THEN <<str[1], "-", str[2]>> \o HyphenateBoundaries(SubSeq(str, 3, Len(str)))
       ELSE <<Head(str)>> \o HyphenateBoundaries(Tail(str))

kebabCase(str) == toLowerCase(HyphenateBoundaries(str))

snakeCase(str) == ReplaceChar(kebabCase(str), "-", <<"_">>)

pascalCase(str) == capitalize(camelCase(str))

constantCase(str) == toUpperCase(snakeCase(str))

titleCase(str) ==
  LET words == Split(str, <<" ">>)
  IN  Join([i \in 1..Len(words) |-> capitalize(words[i])], <<" ">>)

isTitleCase(str) == str = titleCase(str)
isCamelCase(str) == str = camelCase(str)
isPascalCase(str) == str = pascalCase(str)
isKebabCase(str) == str = kebabCase(str)
isSnakeCase(str) == str = snakeCase(str)
isConstantCase(str) == str = constantCase(str)

\* the . of a regular expression matches every character but a line terminator
IsLineTerminator(c) == c \in {"\n", "\r"}

DefaultMaskChar == <<"*">>

\* str.replace(/./g, maskChar)
RECURSIVE mask(_, _)
mask(str, maskChar) ==
  IF str = <<>> THEN <<>>
  ELSE (IF IsLineTerminator(Head(str)) THEN <<Head(str)>> ELSE maskChar)
         \o mask(Tail(str), maskChar)

Amp == <<"&", "a", "m", "p", ";">>
Lt == <<"&", "l", "t", ";">>
Gt == <<"&", "g", "t", ";">>

\* the replacements in the wrong order: the ampersand last
htmlSafe_AmpLast(str) ==
  ReplaceChar(ReplaceChar(ReplaceChar(str, "<", Lt), ">", Gt), "&", Amp)

htmlSafe(str) ==
  ReplaceChar(ReplaceChar(ReplaceChar(str, "&", Amp), "<", Lt), ">", Gt)

\* the index of the first ">" of s at or after i, 0 when there is none
FirstGt(s, i) ==
  IF \E k \in i..Len(s) : s[k] = ">"
  THEN CHOOSE k \in i..Len(s) : s[k] = ">" /\ \A m \in i..(k - 1) : s[m] # ">"
  ELSE 0

\* the index of the last ">" of s at or after i, 0 when there is none
LastGt(s, i) ==
  IF \E k \in i..Len(s) : s[k] = ">"
  THEN CHOOSE k \in i..Len(s) : s[k] = ">" /\ \A m \in (k + 1)..Len(s) : s[m] # ">"
  ELSE 0

\* str.replace(/<.*>/g, ""): a greedy match runs to the last ">"
RECURSIVE removeHtmlTags_Greedy(_)
removeHtmlTags_Greedy(str) ==
  IF str = <<>> THEN <<>>
  ELSE IF Head(str) = "<" /\ LastGt(str, 2) # 0
       THEN removeHtmlTags_Greedy(SubSeq(str, LastGt(str, 2) + 1, Len(str)))
       ELSE <<Head(str)>> \o removeHtmlTags_Greedy(Tail(str))

\* str.replace(/<[^>]*>/g, ""): a match starts at a "<" and, [^>]* taking
\* every character but ">", ends at the first ">" after it
RECURSIVE removeHtmlTags(_)
removeHtmlTags(str) ==
  IF str = <<>> THEN <<>>
  ELSE IF Head(str) = "<" /\ FirstGt(str, 2) # 0
       THEN removeHtmlTags(SubSeq(str, FirstGt(str, 2) + 1, Len(str)))
       ELSE <<Head(str)>> \o removeHtmlTags(Tail(str))

\* the number of leading characters of s that match \d
RECURSIVE LeadingDigits(_)
LeadingDigits(s) ==
  IF s # <<>> /\ IsDigit(Head(s)) THEN 1 + LeadingDigits(Tail(s)) ELSE 0

DigitValue(c) ==
  CASE c = "0" -> 0 [] c = "1" -> 1 [] c = "2" -> 2 [] c = "3" -> 3 [] c = "4" -> 4
    [] c = "5" -> 5 [] c = "6" -> 6 [] c = "7" -> 7 [] c = "8" -> 8 [] c = "9" -> 9

\* the number a run of decimal digits denotes
RECURSIVE DigitsValue(_)
DigitsValue(digits) ==
  IF digits = <<>> THEN 0
  ELSE 10 * DigitsValue(SubSeq(digits, 1, Len(digits) - 1)) + DigitValue(digits[Len(digits)])

\* A property key names an array element only if it is the canonical decimal
\* text of the index: "0", "1", "10", but neither "00" nor "01".
IsArrayIndexKey(key) == Len(key) = 1 \/ key[1] # "0"

\* args[index] || "" with index the captured text of the digits
ArgOrEmpty(args, index) ==
  IF IsArrayIndexKey(index) /\ DigitsValue(index) < Len(args)
  THEN args[DigitsValue(index) + 1]
  ELSE <<>>

\* str.replace(/{(\d+)}/g, (_match, index) => args[index] || "")
RECURSIVE format(_, _)
format(str, args) ==
  IF str = <<>> THEN <<>>
  ELSE LET n == LeadingDigits(Tail(str))
       IN  IF Head(str) = "{" /\ n >= 1 /\ Len(str) >= n + 2 /\ str[n + 2] = "}"
           THEN ArgOrEmpty(args, SubSeq(str, 2, n + 1))
                  \o format(SubSeq(str, n + 3, Len(str)), args)
           ELSE <<Head(str)>> \o format(Tail(str), args)

totalOccurrences(str, subStr) == Len(Split(str, subStr)) - 1

(***************************************************************************)
(* Number helpers                                                          *)
(***************************************************************************)
\* the % of ECMAScript on integers: the result takes the sign of the dividend
JsRem(a, b) == IF a >= 0 THEN a % b ELSE 0 - ((0 - a) % b)

DigitChars == <<"0","1","2","3","4","5","6","7","8","9">>

RECURSIVE NatToString(_)
NatToString(n) ==
  IF n < 10 THEN <<DigitChars[n + 1]>>
  ELSE NatToString(n \div 10) \o <<DigitChars[(n % 10) + 1]>>

\* Number.prototype.toString of an integer, as applied by n + "..."
ToString(n) == IF n < 0 THEN <<"-">> \o NatToString(0 - n) ELSE NatToString(n)

\* arr[k] || dflt: an index outside the array reads undefined, which is falsy
IndexOr(arr, k, dflt) ==
  IF k \in 0..(Len(arr) - 1) /\ arr[k + 1] # <<>> THEN arr[k + 1] ELSE dflt

suffixes == << <<"t","h">>, <<"s","t">>, <<"n","d">>, <<"r","d">> >>

toOrdinal(n) ==
  LET v == JsRem(n, 100)
  IN  ToString(n) \o IndexOr(suffixes, JsRem(v - 20, 10), IndexOr(suffixes, v, suffixes[1]))

\* the remainder alone, without the second reduction
mod_RemainderOnly(n, m) == JsRem(n, m)

mod(n, m) == JsRem(JsRem(n, m) + m, m)

(***************************************************************************)
(* ECMAScript number values: a finite number is a fraction num/den in      *)
(* lowest terms with den > 0; NaN, the infinities and undefined are kinds  *)
(* of their own.                                                           *)
(***************************************************************************)
RECURSIVE Gcd(_, _)
Gcd(a, b) == IF b = 0 THEN a ELSE Gcd(b, a % b)

Abs(k) == IF k < 0 THEN 0 - k ELSE k

\* the number n/d, d > 0
Fraction(n, d) ==
  LET g == Gcd(Abs(n), d)
  IN  [kind |-> "number", num |-> n \div g, den |-> d \div g]

Num(k) == [kind |-> "number", num |-> k, den |-> 1]
NaN == [kind |-> "NaN", num |-> 0, den |-> 1]
Undefined == [kind |-> "undefined", num |-> 0, den |-> 1]
PosInfinity == [kind |-> "Infinity", num |-> 1, den |-> 1]
NegInfinity == [kind |-> "Infinity", num |-> 0 - 1, den |-> 1]

\* undefined becomes NaN when an arithmetic operator reads it
IsNaNOperand(a) == a.kind \in {"NaN", "undefined"}

Sign(k) == IF k > 0 THEN 1 ELSE IF k < 0 THEN 0 - 1 ELSE 0

\* a + b
Add(a, b) ==
  IF IsNaNOperand(a) \/ IsNaNOperand(b) THEN NaN
  ELSE IF a.kind = "Infinity" /\ b.kind = "Infinity"
       THEN (IF a.num = b.num THEN a ELSE NaN)
  ELSE IF a.kind = "Infinity" THEN a
  ELSE IF b.kind = "Infinity" THEN b
  ELSE Fraction(a.num * b.den + b.num * a.den, a.den * b.den)

\* a * b
Times(a, b) ==
  IF IsNaNOperand(a) \/ IsNaNOperand(b) THEN NaN
  ELSE IF a.kind = "Infinity" \/ b.kind = "Infinity"
       THEN (IF a.num = 0 \/ b.num = 0 THEN NaN
             ELSE IF Sign(a.num) = Sign(b.num) THEN PosInfinity ELSE NegInfinity)
  ELSE Fraction(a.num * b.num, a.den * b.den)

\* a / b
Div(a, b) ==
  IF IsNaNOperand(a) \/ IsNaNOperand(b) THEN NaN
  ELSE IF a.kind = "Infinity"
       THEN (IF b.kind = "Infinity" THEN NaN
             ELSE IF Sign(a.num) * (IF b.num < 0 THEN 0 - 1 ELSE 1) > 0
                  THEN PosInfinity ELSE NegInfinity)
  ELSE IF b.kind = "Infinity" THEN Num(0)
  ELSE IF b.num = 0
       THEN (IF a.num = 0 THEN NaN
             ELSE IF a.num > 0 THEN PosInfinity ELSE NegInfinity)
  ELSE Fraction(a.num * b.den * Sign(b.num), a.den * Abs(b.num))

\* an array of integers as the number values it holds
ToValues(list) == [i \in 1..Len(list) |-> Num(list[i])]

\* numbers.reduce((acc, n) => acc + n, 0)
sum(numbers) ==
  LET acc[i \in 0..Len(numbers)] ==
        IF i = 0 THEN Num(0) ELSE Add(acc[i - 1], numbers[i])
  IN  acc[Len(numbers)]

\* the loop `for (i = from; i <= Math.floor(n / 2); i++) if (n % i === 0) push(i)`
RECURSIVE DivisorsLoop(_, _, _)
DivisorsLoop(n, i, divisors) ==
  IF i <= n \div 2
  THEN DivisorsLoop(n, i + 1, IF JsRem(n, i) = 0 THEN Append(divisors, i) ELSE divisors)
  ELSE divisors

\* the same loop stopping one short: i < Math.floor(n / 2)
RECURSIVE DivisorsLoopShort(_, _, _)
DivisorsLoopShort(n, i, divisors) ==
  IF i < n \div 2
  THEN DivisorsLoopShort(n, i + 1, IF JsRem(n, i) = 0 THEN Append(divisors, i) ELSE divisors)
  ELSE divisors

getDivisors_StopsShort(n) == DivisorsLoopShort(n, 1, <<>>)

getDivisors(n) == DivisorsLoop(n, 1, <<>>)

isPerfect(n) == Num(n) = sum(ToValues(getDivisors(n)))

\* the loop `for (i = 2; i <= Math.sqrt(n); i++) if (n % i === 0) return false`;
\* on integers i <= Math.sqrt(n) is i * i <= n
RECURSIVE TrialDivision(_, _)
TrialDivision(n, i) ==
  IF i * i <= n
  THEN (IF JsRem(n, i) = 0 THEN FALSE ELSE TrialDivision(n, i + 1))
  ELSE TRUE

\* the same loop with i < Math.sqrt(n), which leaves floor(sqrt(n)) out
RECURSIVE TrialDivisionExclusive(_, _)
TrialDivisionExclusive(n, i) ==
  IF i * i < n
  THEN (IF JsRem(n, i) = 0 THEN FALSE ELSE TrialDivisionExclusive(n, i + 1))
  ELSE TRUE

isPrime_SqrtExclusive(n) == IF n < 2 THEN FALSE ELSE TrialDivisionExclusive(n, 2)

isPrime(n) == IF n < 2 THEN FALSE ELSE TrialDivision(n, 2)

\* the inner loop `while (n % i === 0) { factors.push(i); n /= i; }`:
\* the local copy of n and the list after it
RECURSIVE DivideOut(_, _, _)
DivideOut(n, i, factors) ==
  IF JsRem(n, i) = 0
  THEN DivideOut(n \div i, i, Append(factors, i))
  ELSE [n |-> n, factors |-> factors]

\* the outer loop `for (i = 2; i <= n; i++)`
RECURSIVE FactorsLoop(_, _, _)
FactorsLoop(n, i, factors) ==
  IF i <= n
  THEN LET after == DivideOut(n, i, factors)
       IN  FactorsLoop(after.n, i + 1, after.factors)
  ELSE factors

\* the outer loop with `if` for `while`: each prime is divided out once
RECURSIVE FactorsLoopOnce(_, _, _)
FactorsLoopOnce(n, i, factors) ==
  IF i <= n
  THEN (IF JsRem(n, i) = 0
        THEN FactorsLoopOnce(n \div i, i + 1, Append(factors, i))
        ELSE FactorsLoopOnce(n, i + 1, factors))
  ELSE factors

getPrimeFactors_DividesOnce(n) == FactorsLoopOnce(n, 2, <<>>)

getPrimeFactors(n) == FactorsLoop(n, 2, <<>>)

\* Math.max and Math.min of one or more integers
MathMax(numbers) ==
  CHOOSE m \in {numbers[i] : i \in 1..Len(numbers)} :
    \A i \in 1..Len(numbers) : numbers[i] <= m
MathMin(numbers) ==
  CHOOSE m \in {numbers[i] : i \in 1..Len(numbers)} :
    \A i \in 1..Len(numbers) : m <= numbers[i]

\* Math.max(...numbers) without the length test: Math.max() is -Infinity
max_NoLengthTest(numbers) ==
  IF Len(numbers) # 0 THEN Num(MathMax(numbers)) ELSE NegInfinity

max(numbers) == IF Len(numbers) # 0 THEN Num(MathMax(numbers)) ELSE NaN

min(numbers) == IF Len(numbers) # 0 THEN Num(MathMin(numbers)) ELSE NaN

\* sum(...numbers) / numbers.length
average(numbers) == Div(sum(numbers), Num(Len(numbers)))

isEven(n) == JsRem(n, 2) = 0

\* arr[k] of an array of integers: undefined outside 0..length-1
ArrayRead(arr, k) == IF k \in 0..(Len(arr) - 1) THEN Num(arr[k + 1]) ELSE Undefined

\* x placed into an ascending list, after the elements equal to it
RECURSIVE InsertAsc(_, _)
InsertAsc(sorted, x) ==
  IF sorted = <<>> THEN <<x>>
  ELSE IF x < Head(sorted) THEN <<x>> \o sorted
  ELSE <<Head(sorted)>> \o InsertAsc(Tail(sorted), x)

\* the order Array.prototype.sort((a, b) => a - b) leaves the elements in
SortAsc(list) ==
  LET S[i \in 0..Len(list)] == IF i = 0 THEN <<>> ELSE InsertAsc(S[i - 1], list[i])
  IN  S[Len(list)]

\* A call f(...src) evaluates the elements of the array src as the arguments,
\* and the rest parameter ...numbers is a new array holding them: the
\* reference numbers is bound to.
RestArray_Aliased(h, src) == src

RestArray(h, src) == Len(h) + 1

\* the heap once the rest parameter is bound
BindRest(h, src) ==
  IF RestArray(h, src) > Len(h) THEN Append(h, h[src]) ELSE h

\* median, called with numbers bound to the array at reference numbers of
\* heap h: the sort is in place, sorted and numbers are one array.  Gives
\* the heap after the call and the returned value.
median(h, numbers) ==
  LET after == [h EXCEPT ![numbers] = SortAsc(h[numbers])]
      sorted == after[numbers]
      middle == Len(sorted) \div 2
  IN  [heap |-> after,
       value |-> IF isEven(Len(sorted))
                 THEN average(<<ArrayRead(sorted, middle - 1), ArrayRead(sorted, middle)>>)
                 ELSE ArrayRead(sorted, middle)]

RECURSIVE factorial(_)
factorial(n) ==
  IF n < 0 THEN NaN
  ELSE IF n = 0 THEN Num(1)
  ELSE Times(Num(n), factorial(n - 1))

RECURSIVE fibonacci(_)
fibonacci(n) ==
  IF n < 0 THEN NaN
  ELSE IF n <= 1 THEN Num(n)
  ELSE Add(fibonacci(n - 1), fibonacci(n - 2))

(***************************************************************************)
(* Inputs the caller draws from                                            *)
(***************************************************************************)
HelloWorld == <<"h","e","l","l","o"," ","w","o","r","l","d">>

AB == {"a", "b"}
TruncateStrs == Strs(AB, MaxLen) \cup {HelloWorld}
TruncateSuffixes == Strs({"."}, MaxLen) \cup {DefaultSuffix}
CaseStrs == Strs({"a", "b", "B", "-", "_", " "}, MaxLen) \cup {HelloWorld}
HtmlStrs == Strs({"&", "<", ">", "a", ";"}, MaxLen)
TagStrs == Strs({"<", ">", "a"}, MaxLen + 2)
MaskStrs == Strs({"a", " ", "\n"}, MaxLen)
MaskChars == {DefaultMaskChar, <<"#">>}
Templates == Strs({"{", "}", "0", "1", "x"}, MaxTemplate)
\* the caller's array of arguments
CallerRef == 1
IntLists == Strs((0 - MaxElem)..MaxElem, MaxArgs)
ArgLists == { <<>>, << <<"y">> >>, << <<"y">>, <<"z">> >>,
              << <<"{", "1", "}">>, <<"z">> >>, << <<>>, <<"z">> >> }

(***************************************************************************)
(* The caller: one action per helper, and the return to idle               *)
(***************************************************************************)
Init ==
  /\ pc = "idle"
  /\ fn = "none"
  /\ argv = <<>>
  /\ ret = <<>>
  /\ heap = <<>>

call_removePrefix ==
  /\ pc = "idle"
  /\ \E s \in Strs(AB, MaxLen), p \in Strs(AB, MaxLen) :
       /\ argv' = <<s, p>>
       /\ ret' = removePrefix(s, p)
  /\ fn' = "removePrefix"
  /\ pc' = "done"
  /\ UNCHANGED heap

call_removeSuffix ==
  /\ pc = "idle"
  /\ \E s \in Strs(AB, MaxLen), suf \in Strs(AB, MaxLen) :
       /\ argv' = <<s, suf>>
       /\ ret' = removeSuffix(s, suf)
  /\ fn' = "removeSuffix"
  /\ pc' = "done"
  /\ UNCHANGED heap

\* the suffix parameter is "..." when the caller leaves it out
call_truncate ==
  /\ pc = "idle"
  /\ \E s \in TruncateStrs, maxLength \in 0..(MaxLen + 2), suffix \in TruncateSuffixes :
       /\ argv' = <<s, maxLength, suffix>>
       /\ ret' = truncate(s, maxLength, suffix)
  /\ fn' = "truncate"
  /\ pc' = "done"
  /\ UNCHANGED heap

call_camelCase ==
  /\ pc = "idle"
  /\ \E s \in CaseStrs :
       /\ argv' = <<s>>
       /\ ret' = camelCase(s)
  /\ fn' = "camelCase"
  /\ pc' = "done"
  /\ UNCHANGED heap

call_kebabCase ==
  /\ pc = "idle"
  /\ \E s \in CaseStrs :
       /\ argv' = <<s>>
       /\ ret' = kebabCase(s)
  /\ fn' = "kebabCase"
  /\ pc' = "done"
  /\ UNCHANGED heap

call_snakeCase ==
  /\ pc = "idle"
  /\ \E s \in CaseStrs :
       /\ argv' = <<s>>
       /\ ret' = snakeCase(s)
  /\ fn' = "snakeCase"
  /\ pc' = "done"
  /\ UNCHANGED heap

call_pascalCase ==
  /\ pc = "idle"
  /\ \E s \in CaseStrs :
       /\ argv' = <<s>>
       /\ ret' = pascalCase(s)
  /\ fn' = "pascalCase"
  /\ pc' = "done"
  /\ UNCHANGED heap

call_constantCase ==
  /\ pc = "idle"
  /\ \E s \in CaseStrs :
       /\ argv' = <<s>>
       /\ ret' = constantCase(s)
  /\ fn' = "constantCase"
  /\ pc' = "done"
  /\ UNCHANGED heap

call_titleCase ==
  /\ pc = "idle"
  /\ \E s \in CaseStrs :
       /\ argv' = <<s>>
       /\ ret' = titleCase(s)
  /\ fn' = "titleCase"
  /\ pc' = "done"
  /\ UNCHANGED heap

\* maskChar is "*" when the caller leaves it out
call_mask ==
  /\ pc = "idle"
  /\ \E s \in MaskStrs, maskChar \in MaskChars :
       /\ argv' = <<s, maskChar>>
       /\ ret' = mask(s, maskChar)
  /\ fn' = "mask"
  /\ pc' = "done"
  /\ UNCHANGED heap

call_htmlSafe ==
  /\ pc = "idle"
  /\ \E s \in HtmlStrs :
       /\ argv' = <<s>>
       /\ ret' = htmlSafe(s)
  /\ fn' = "htmlSafe"
  /\ pc' = "done"
  /\ UNCHANGED heap

call_format ==
  /\ pc = "idle"
  /\ \E s \in Templates, args \in ArgLists :
       /\ argv' = <<s, args>>
       /\ ret' = format(s, args)
  /\ fn' = "format"
  /\ pc' = "done"
  /\ UNCHANGED heap

call_totalOccurrences ==
  /\ pc = "idle"
  /\ \E s \in Strs(AB, MaxLen), subStr \in Strs(AB, MaxLen) :
       /\ argv' = <<s, subStr>>
       /\ ret' = totalOccurrences(s, subStr)
  /\ fn' = "totalOccurrences"
  /\ pc' = "done"
  /\ UNCHANGED heap

call_toOrdinal ==
  /\ pc = "idle"
  /\ \E n \in (0 - MaxInt)..MaxInt :
       /\ argv' = <<n>>
       /\ ret' = toOrdinal(n)
  /\ fn' = "toOrdinal"
  /\ pc' = "done"
  /\ UNCHANGED heap

call_mod ==
  /\ pc = "idle"
  /\ \E n \in (0 - MaxInt)..MaxInt, m \in 1..MaxModulus :
       /\ argv' = <<n, m>>
       /\ ret' = mod(n, m)
  /\ fn' = "mod"
  /\ pc' = "done"
  /\ UNCHANGED heap

call_getPrimeFactors ==
  /\ pc = "idle"
  /\ \E n \in (0 - MaxNat)..MaxNat :
       /\ argv' = <<n>>
       /\ ret' = getPrimeFactors(n)
  /\ fn' = "getPrimeFactors"
  /\ pc' = "done"
  /\ UNCHANGED heap

call_getDivisors ==
  /\ pc = "idle"
  /\ \E n \in (0 - MaxNat)..MaxNat :
       /\ argv' = <<n>>
       /\ ret' = getDivisors(n)
  /\ fn' = "getDivisors"
  /\ pc' = "done"
  /\ UNCHANGED heap

call_isPrime ==
  /\ pc = "idle"
  /\ \E n \in (0 - MaxNat)..MaxNat :
       /\ argv' = <<n>>
       /\ ret' = isPrime(n)
  /\ fn' = "isPrime"
  /\ pc' = "done"
  /\ UNCHANGED heap

call_isPerfect ==
  /\ pc = "idle"
  /\ \E n \in (0 - MaxNat)..MaxNat :
       /\ argv' = <<n>>
       /\ ret' = isPerfect(n)
  /\ fn' = "isPerfect"
  /\ pc' = "done"
  /\ UNCHANGED heap

call_max ==
  /\ pc = "idle"
  /\ \E numbers \in IntLists :
       /\ argv' = <<numbers>>
       /\ ret' = max(numbers)
  /\ fn' = "max"
  /\ pc' = "done"
  /\ UNCHANGED heap

call_min ==
  /\ pc = "idle"
  /\ \E numbers \in IntLists :
       /\ argv' = <<numbers>>
       /\ ret' = min(numbers)
  /\ fn' = "min"
  /\ pc' = "done"
  /\ UNCHANGED heap

call_sum ==
  /\ pc = "idle"
  /\ \E numbers \in IntLists :
       /\ argv' = <<numbers>>
       /\ ret' = sum(ToValues(numbers))
  /\ fn' = "sum"
  /\ pc' = "done"
  /\ UNCHANGED heap

call_average ==
  /\ pc = "idle"
  /\ \E numbers \in IntLists :
       /\ argv' = <<numbers>>
       /\ ret' = average(ToValues(numbers))
  /\ fn' = "average"
  /\ pc' = "done"
  /\ UNCHANGED heap

\* the caller holds the arguments in an array of its own, at CallerRef, and
\* calls median(...array); the heap is kept until the caller moves on
call_median ==
  /\ pc = "idle"
  /\ \E numbers \in IntLists :
       LET h == <<numbers>>
           out == median(BindRest(h, CallerRef), RestArray(h, CallerRef))
       IN  /\ argv' = <<numbers>>
           /\ ret' = out.value
           /\ heap' = out.heap
  /\ fn' = "median"
  /\ pc' = "done"

call_factorial ==
  /\ pc = "idle"
  /\ \E n \in (0 - MaxRec)..MaxRec :
       /\ argv' = <<n>>
       /\ ret' = factorial(n)
  /\ fn' = "factorial"
  /\ pc' = "done"
  /\ UNCHANGED heap

call_fibonacci ==
  /\ pc = "idle"
  /\ \E n \in (0 - MaxRec)..MaxRec :
       /\ argv' = <<n>>
       /\ ret' = fibonacci(n)
  /\ fn' = "fibonacci"
  /\ pc' = "done"
  /\ UNCHANGED heap

call_removeHtmlTags ==
  /\ pc = "idle"
  /\ \E s \in TagStrs :
       /\ argv' = <<s>>
       /\ ret' = removeHtmlTags(s)
  /\ fn' = "removeHtmlTags"
  /\ pc' = "done"
  /\ UNCHANGED heap

Return ==
  /\ pc = "done"
  /\ pc' = "idle"
  /\ fn' = "none"
  /\ argv' = <<>>
  /\ ret' = <<>>
  /\ heap' = <<>>

Next ==
  \/ call_removePrefix
  \/ call_removeSuffix
  \/ call_truncate
  \/ call_camelCase
  \/ call_kebabCase
  \/ call_snakeCase
  \/ call_pascalCase
  \/ call_constantCase
  \/ call_titleCase
  \/ call_mask
  \/ call_htmlSafe
  \/ call_format
  \/ call_totalOccurrences
  \/ call_toOrdinal
  \/ call_mod
  \/ call_getPrimeFactors
  \/ call_getDivisors
  \/ call_isPrime
  \/ call_isPerfect
  \/ call_max
  \/ call_min
  \/ call_sum
  \/ call_average
  \/ call_median
  \/ call_factorial
  \/ call_fibonacci
  \/ call_removeHtmlTags
  \/ Return

Spec == Init /\ [][Next]_vars

\* the helper called name has returned
Called(name) == pc = "done" /\ fn = name

\* character c occurs in string s
Occurs(c, s) == \E i \in 1..Len(s) : s[i] = c

(***************************************************************************)
(* C1: removeSuffix(s, suf) strips the trailing suf when s ends with suf,  *)
(* so that appending suf gives back s, and returns s unchanged otherwise,  *)
(* for every suf including the empty one; it mirrors removePrefix.         *)
(***************************************************************************)
C1_RemoveSuffixStrips ==
  Called("removeSuffix") =>
    LET s == argv[1]
        suf == argv[2]
    IN  /\ IF \E p \in Strs(AB, MaxLen + 1) : s = p \o suf
           THEN ret \o suf = s
           ELSE ret = s
        /\ ret = reverse(removePrefix(reverse(s), reverse(suf)))

(***************************************************************************)
(* C2: when length(s) > maxLen, truncate(s, maxLen, suffix) is the first   *)
(* max(0, maxLen - length(suffix)) characters of s followed by suffix, and *)
(* otherwise s; truncate("hello world", 5) is "he...".                     *)
(***************************************************************************)
C2_TruncateClamped ==
  Called("truncate") =>
    LET s == argv[1]
        maxLen == argv[2]
        suffix == argv[3]
        keep == Max2(0, maxLen - Len(suffix))
    IN  /\ ret = IF Len(s) > maxLen THEN SubSeq(s, 1, Min2(keep, Len(s))) \o suffix ELSE s
        /\ (s = HelloWorld /\ maxLen = 5 /\ suffix = DefaultSuffix)
             => ret = <<"h", "e", ".", ".", ".">>

(***************************************************************************)
(* C3: htmlSafe(s) is the result of one left-to-right pass that writes     *)
(* "&amp;" for '&', "&lt;" for '<', "&gt;" for '>' and copies every other  *)
(* character, so no ampersand written for '<' or '>' is escaped again, and *)
(* the output holds no '<' and no '>'.                                     *)
(***************************************************************************)
EscapeOnePass(s) ==
  IF s = <<>> THEN <<>>
  ELSE LET piece(c) == CASE c = "&" -> Amp
                         [] c = "<" -> Lt
                         [] c = ">" -> Gt
                         [] OTHER -> <<c>>
           F[i \in 0..Len(s)] == IF i = 0 THEN <<>> ELSE F[i - 1] \o piece(s[i])
       IN  F[Len(s)]

C3_HtmlSafeSinglePass ==
  Called("htmlSafe") =>
    /\ ret = EscapeOnePass(argv[1])
    /\ ~Occurs("<", ret)
    /\ ~Occurs(">", ret)

C3_Witness ==
  /\ Called("htmlSafe")
  /\ argv[1] = <<"<", "&", ">">>
  /\ ret = Lt \o Amp \o Gt

(***************************************************************************)
(* C4: the output of every case transform satisfies the matching           *)
(* predicate: isKebabCase(kebabCase(s)), and likewise for camelCase,       *)
(* pascalCase, snakeCase, constantCase and titleCase, so applying a        *)
(* transform to its own output changes nothing.                            *)
(***************************************************************************)
C4_CaseTransformFixedPoint ==
  /\ Called("kebabCase") => isKebabCase(ret)
  /\ Called("camelCase") => isCamelCase(ret)
  /\ Called("pascalCase") => isPascalCase(ret)
  /\ Called("snakeCase") => isSnakeCase(ret)
  /\ Called("constantCase") => isConstantCase(ret)
  /\ Called("titleCase") => isTitleCase(ret)

C4_Witness ==
  /\ Called("kebabCase")
  /\ argv[1] = <<"a", "B", "-">>
  /\ ret = <<"a", "-", "b", "-">>
  /\ isKebabCase(ret)

(***************************************************************************)
(* C5: kebabCase joins lowercase words separated by single spaces with     *)
(* hyphens, kebabCase("hello world") = "hello-world", and snakeCase joins  *)
(* them with underscores, snakeCase("hello world") = "hello_world".        *)
(***************************************************************************)
\* s is one or more non-empty words of lowercase letters, one space between
IsSpacedLowerWords(s) ==
  /\ s # <<>>
  /\ \A i \in 1..Len(s) : IsLower(s[i]) \/ s[i] = " "
  /\ s[1] # " " /\ s[Len(s)] # " "
  /\ \A i \in 1..(Len(s) - 1) : ~(s[i] = " " /\ s[i + 1] = " ")

C5_KebabJoinsWords ==
  /\ (Called("kebabCase") /\ IsSpacedLowerWords(argv[1]))
       => ret = [i \in 1..Len(argv[1]) |-> IF argv[1][i] = " " THEN "-" ELSE argv[1][i]]
  /\ (Called("snakeCase") /\ IsSpacedLowerWords(argv[1]))
       => ret = [i \in 1..Len(argv[1]) |-> IF argv[1][i] = " " THEN "_" ELSE argv[1][i]]

(***************************************************************************)
(* C6: format(s, ...args) replaces every placeholder {i}, i any run of     *)
(* decimal digits read as a number (leading zeros included), by args[i]    *)
(* when the list has an element at index i and by the empty string         *)
(* otherwise; the other text is unchanged and inserted text is not scanned *)
(* again.                                                                  *)
(***************************************************************************)
RECURSIVE FormatByNumber(_, _)
FormatByNumber(s, args) ==
  IF s = <<>> THEN <<>>
  ELSE LET n == LeadingDigits(Tail(s))
           i == DigitsValue(SubSeq(s, 2, n + 1))
       IN  IF Head(s) = "{" /\ n >= 1 /\ Len(s) >= n + 2 /\ s[n + 2] = "}"
           THEN (IF i < Len(args) THEN args[i + 1] ELSE <<>>)
                  \o FormatByNumber(SubSeq(s, n + 3, Len(s)), args)
           ELSE <<Head(s)>> \o FormatByNumber(Tail(s), args)

C6_FormatByIndex ==
  Called("format") => ret = FormatByNumber(argv[1], argv[2])

(***************************************************************************)
(* C7: totalOccurrences(s, sub) is the number of non-overlapping           *)
(* occurrences of sub in s found scanning left to right, and is never      *)
(* negative, the empty sub and the empty s included.                       *)
(***************************************************************************)
RECURSIVE CountLeftToRight(_, _)
CountLeftToRight(s, sub) ==
  IF Len(s) < Len(sub) THEN 0
  ELSE IF SubSeq(s, 1, Len(sub)) = sub
       THEN 1 + CountLeftToRight(SubSeq(s, Len(sub) + 1, Len(s)), sub)
       ELSE CountLeftToRight(Tail(s), sub)

C7_OccurrencesCounted ==
  Called("totalOccurrences") =>
    /\ argv[2] # <<>> => ret = CountLeftToRight(argv[1], argv[2])
    /\ ret >= 0

(***************************************************************************)
(* C8: mask(s, ch) has the length of s and every character of it is ch,    *)
(* also when s holds line terminators such as newline.                     *)
(***************************************************************************)
C8_MaskEveryCharacter ==
  Called("mask") =>
    /\ Len(ret) = Len(argv[1])
    /\ \A i \in 1..Len(ret) : ret[i] = argv[2][1]

(***************************************************************************)
(* C9: for every integer n, negative or not, toOrdinal(n) is the decimal   *)
(* text of n followed by "th" when the last two digits of n are 11, 12 or  *)
(* 13, else by "st", "nd", "rd" for a last digit of 1, 2, 3, and by "th"   *)
(* for every other last digit.                                             *)
(***************************************************************************)
OrdinalSuffix(n) ==
  LET a == IF n < 0 THEN 0 - n ELSE n
  IN  IF (a % 100) \in {11, 12, 13} THEN <<"t", "h">>
      ELSE CASE a % 10 = 1 -> <<"s", "t">>
             [] a % 10 = 2 -> <<"n", "d">>
             [] a % 10 = 3 -> <<"r", "d">>
             [] OTHER -> <<"t", "h">>

C9_OrdinalEveryInteger ==
  Called("toOrdinal") => ret = ToString(argv[1]) \o OrdinalSuffix(argv[1])

(***************************************************************************)
(* C10: for every integer n and every integer m > 0, mod(n, m) is the      *)
(* mathematical modulo: 0 <= mod(n, m) < m and n - mod(n, m) is a multiple *)
(* of m; mod(-5, 3) = 1.                                                   *)
(***************************************************************************)
C10_ModIsMathematical ==
  Called("mod") =>
    LET n == argv[1]
        m == argv[2]
    IN  /\ 0 <= ret /\ ret < m
        /\ \E k \in (0 - MaxInt - 1)..(MaxInt + 1) : n - ret = k * m
        /\ (n = 0 - 5 /\ m = 3) => ret = 1

C10_Witness ==
  /\ Called("mod")
  /\ argv = <<0 - 5, 3>>
  /\ ret = 1

(***************************************************************************)
(* C11: for every integer n >= 2, getPrimeFactors(n) terminates and        *)
(* returns a non-decreasing list of primes whose product is n; for every   *)
(* integer n < 2 it returns the empty list.                                *)
(***************************************************************************)
\* p is a prime number, by the definition
IsPrimeNumber(p) == p >= 2 /\ \A d \in 2..(p - 1) : p % d # 0

Product(list) ==
  LET P[i \in 0..Len(list)] == IF i = 0 THEN 1 ELSE P[i - 1] * list[i]
  IN  P[Len(list)]

C11_PrimeFactorization ==
  Called("getPrimeFactors") =>
    IF argv[1] >= 2
    THEN /\ \A i \in 1..(Len(ret) - 1) : ret[i] <= ret[i + 1]
         /\ \A i \in 1..Len(ret) : IsPrimeNumber(ret[i])
         /\ Product(ret) = argv[1]
    ELSE ret = <<>>

C11_Witness ==
  /\ Called("getPrimeFactors")
  /\ argv[1] = 12
  /\ ret = <<2, 2, 3>>

(***************************************************************************)
(* C12: for every integer n >= 1, getDivisors(n) is the strictly ascending *)
(* list of all positive divisors of n other than n itself, so              *)
(* getDivisors(6) = [1, 2, 3] and getDivisors(1) is empty; and isPerfect(n)*)
(* is true exactly when n equals the sum of those divisors.                *)
(***************************************************************************)
ProperDivisors(n) == {d \in 1..(n - 1) : n % d = 0}

RECURSIVE SumOfSet(_)
SumOfSet(S) ==
  IF S = {} THEN 0
  ELSE LET x == CHOOSE y \in S : TRUE IN x + SumOfSet(S \ {x})

C12_ProperDivisors ==
  /\ (Called("getDivisors") /\ argv[1] >= 1) =>
       /\ \A i \in 1..(Len(ret) - 1) : ret[i] < ret[i + 1]
       /\ {ret[i] : i \in 1..Len(ret)} = ProperDivisors(argv[1])
       /\ argv[1] = 6 => ret = <<1, 2, 3>>
       /\ argv[1] = 1 => ret = <<>>
  /\ (Called("isPerfect") /\ argv[1] >= 1) =>
       ret = (argv[1] = SumOfSet(ProperDivisors(argv[1])))

C12_Witness ==
  /\ Called("isPerfect")
  /\ argv[1] = 28
  /\ ret = TRUE

(***************************************************************************)
(* C13: isPrime(n) is true exactly when n >= 2 and n has no divisor d with *)
(* 1 < d < n; it is false for every n < 2 and for the square of every      *)
(* prime.                                                                  *)
(***************************************************************************)
C13_IsPrimeExact ==
  Called("isPrime") =>
    LET n == argv[1]
    IN  /\ ret = (n >= 2 /\ \A d \in 2..(n - 1) : n % d # 0)
        /\ n < 2 => ret = FALSE
        /\ (\E p \in 2..n : IsPrimeNumber(p) /\ n = p * p) => ret = FALSE

C13_Witness ==
  /\ Called("isPrime")
  /\ argv[1] = 49
  /\ ret = FALSE

(***************************************************************************)
(* C14: for every non-empty list of integers passed as arguments, in any   *)
(* order, median returns the middle element of the ascending values when   *)
(* the count is odd and the average of the two middle elements when it is  *)
(* even, and the array the caller supplied the arguments from is in its    *)
(* original order after the call.                                          *)
(***************************************************************************)
\* the k-th smallest element of list, counting from 1
KthSmallest(list, k) ==
  CHOOSE v \in {list[i] : i \in 1..Len(list)} :
    /\ Cardinality({i \in 1..Len(list) : list[i] < v}) < k
    /\ Cardinality({i \in 1..Len(list) : list[i] <= v}) >= k

C14_MedianLeavesCallerArray ==
  (Called("median") /\ argv[1] # <<>>) =>
    LET list == argv[1]
        n == Len(list)
    IN  /\ ret = IF n % 2 = 1
                 THEN Num(KthSmallest(list, (n + 1) \div 2))
                 ELSE Fraction(KthSmallest(list, n \div 2)
                                 + KthSmallest(list, n \div 2 + 1), 2)
        /\ heap[CallerRef] = list

C14_Witness ==
  /\ Called("median")
  /\ argv[1] = <<2, 1>>
  /\ ret = Fraction(3, 2)
  /\ heap[CallerRef] = <<2, 1>>

(***************************************************************************)
(* C15: invalid numeric inputs yield NaN and no fault: max(), min(),       *)
(* average() and median() with zero arguments return NaN, factorial(n) and *)
(* fibonacci(n) return NaN for every negative n; factorial(0) = 1,         *)
(* fibonacci(0) = 0, fibonacci(1) = 1, and for n >= 0 both recursions end  *)
(* with factorial(n) = n * factorial(n-1) and                              *)
(* fibonacci(n) = fibonacci(n-1) + fibonacci(n-2).                         *)
(***************************************************************************)
FactorialOf(n) ==
  LET F[i \in 0..n] == IF i = 0 THEN 1 ELSE i * F[i - 1]
  IN  F[n]

FibonacciOf(n) ==
  LET F[i \in 0..n] == IF i <= 1 THEN i ELSE F[i - 1] + F[i - 2]
  IN  F[n]

C15_InvalidInputsGiveNaN ==
  /\ (pc = "done" /\ fn \in {"max", "min", "average", "median"} /\ argv[1] = <<>>)
       => ret = NaN
  /\ (pc = "done" /\ fn \in {"factorial", "fibonacci"} /\ argv[1] < 0)
       => ret = NaN
  /\ (Called("factorial") /\ argv[1] >= 0) => ret = Num(FactorialOf(argv[1]))
  /\ (Called("fibonacci") /\ argv[1] >= 0) => ret = Num(FibonacciOf(argv[1]))

C15_Witness ==
  /\ Called("median")
  /\ argv[1] = <<>>
  /\ ret = NaN

(***************************************************************************)
(* C16: removeHtmlTags(s) leaves in place every '<' that has no '>' after  *)
(* it in s, removes every span from a '<' to the nearest following '>',    *)
(* its output holds no '<' that is followed later by a '>', and so         *)
(* removeHtmlTags(removeHtmlTags(s)) = removeHtmlTags(s).                  *)
(***************************************************************************)
\* character i of s lies in a span from a '<' to the nearest '>' after it
InTagSpan(s, i) ==
  \E j \in 1..i :
    /\ s[j] = "<"
    /\ \A m \in j..(i - 1) : s[m] # ">"
    /\ \E k \in i..Len(s) : s[k] = ">"

\* s without the characters that lie in such a span
OutsideTagSpans(s) ==
  LET K[i \in 0..Len(s)] ==
        IF i = 0 THEN <<>>
        ELSE IF InTagSpan(s, i) THEN K[i - 1] ELSE Append(K[i - 1], s[i])
  IN  K[Len(s)]

CountOf(c, s) == Cardinality({i \in 1..Len(s) : s[i] = c})

C16_TagsRemovedOnce ==
  Called("removeHtmlTags") =>
    LET s == argv[1]
    IN  /\ ret = OutsideTagSpans(s)
        /\ CountOf("<", ret)
             = Cardinality({i \in 1..Len(s) :
                              s[i] = "<" /\ \A k \in i..Len(s) : s[k] # ">"})
        /\ ~\E i \in 1..Len(ret) : \E k \in (i + 1)..Len(ret) :
              ret[i] = "<" /\ ret[k] = ">"
        /\ removeHtmlTags(ret) = ret

C16_Witness ==
  /\ Called("removeHtmlTags")
  /\ argv[1] = <<"<", "a", ">", ">", "<">>
  /\ ret = <<">", "<">>

====
